---- MODULE Spec2Model ----
(***************************************************************************)
(* subnetcalc: IPv4 subnet properties and route aggregation.               *)
(*                                                                         *)
(* The program is a set of pure functions over (address, prefix) pairs.    *)
(* One run of the model is one call: the build profile is fixed at Init,   *)
(* an action draws the call's arguments, applies the function as the code  *)
(* computes it and records the outcome.                                    *)
(*                                                                         *)
(* A u32 is modelled as a function from bit positions 0..31 (0 is the      *)
(* least significant bit) to {0,1}; an Ipv4Addr is its four octets.         *)
(* Arithmetic overflow follows rustc: with overflow checks (the debug      *)
(* profile) the thread panics, without them (release) the value wraps and  *)
(* a shift amount keeps its low five bits only.                            *)
(***************************************************************************)
EXTENDS Integers, Naturals, Sequences, FiniteSets, TLC

VARIABLES
    overflow_checks,  \* TRUE: built with overflow checks (debug profile)
    pc,               \* "start" before the call, "done" after it
    op,               \* the function that was called
    arg,              \* its argument(s)
    result            \* its outcome: Ok(v), Err(kind) or Panicked

vars == <<overflow_checks, pc, op, arg, result>>

\* Width of an IPv4 address / of u32.
BITS == 32

\* Longest list of networks handed to an aggregation function.
MaxLen == 2

----------------------------------------------------------------------------
(* Outcomes *)

Ok(v) == [tag |-> "Ok", val |-> v]
Err(e) == [tag |-> "Err", err |-> e]
Panicked == [tag |-> "Panic"]

IsOk(r) == r.tag = "Ok"

----------------------------------------------------------------------------
(* u32 as bits *)

BitPos == 0..(BITS - 1)

Zero32 == [i \in BitPos |-> 0]
\* !0 and u32::MAX
AllOnes == [i \in BitPos |-> 1]

Not32(x) == [i \in BitPos |-> 1 - x[i]]
And32(x, y) == [i \in BitPos |-> IF x[i] = 1 /\ y[i] = 1 THEN 1 ELSE 0]
Or32(x, y) == [i \in BitPos |-> IF x[i] = 1 \/ y[i] = 1 THEN 1 ELSE 0]

\* x << n for a shift amount 0 <= n < 32.
Shl32(x, n) == [i \in BitPos |-> IF i >= n THEN x[i - n] ELSE 0]

\* 1 << i
Bit32(n) == [i \in BitPos |-> IF i = n THEN 1 ELSE 0]

\* 2^n for n in 0..30.
Pow2(n) ==
    << 1, 2, 4, 8, 16, 32, 64, 128, 256, 512, 1024, 2048, 4096, 8192, 16384,
       32768, 65536, 131072, 262144, 524288, 1048576, 2097152, 4194304,
       8388608, 16777216, 33554432, 67108864, 134217728, 268435456,
       536870912, 1073741824 >>[n + 1]

\* The value of bits lo..hi of x, as a number (hi - lo < 31).
RECURSIVE Field(_, _, _)
Field(x, hi, lo) ==
    IF hi < lo THEN 0 ELSE x[hi] * Pow2(hi - lo) + Field(x, hi - 1, lo)

\* u32::from(Ipv4Addr): the octets in big-endian order.
ip_to_u32(ip) ==
    [i \in BitPos |-> (ip[4 - (i \div 8)] \div Pow2(i % 8)) % 2]

\* Ipv4Addr::from(u32)
u32_to_ip(x) ==
    <<Field(x, 31, 24), Field(x, 23, 16), Field(x, 15, 8), Field(x, 7, 0)>>

\* F(e), with e evaluated once before F is applied.
Let(F(_), e) == CHOOSE r \in {F(v) : v \in {e}} : TRUE

\* The low (k = 0) or high (k = 1) 16 bits of x, as a number.
Half(x, k) ==
    Let(LAMBDA b :
            x[b] + 2 * x[b + 1] + 4 * x[b + 2] + 8 * x[b + 3]
            + 16 * x[b + 4] + 32 * x[b + 5] + 64 * x[b + 6] + 128 * x[b + 7]
            + 256 * x[b + 8] + 512 * x[b + 9] + 1024 * x[b + 10]
            + 2048 * x[b + 11] + 4096 * x[b + 12] + 8192 * x[b + 13]
            + 16384 * x[b + 14] + 32768 * x[b + 15],
        16 * k)

\* The u32 made of the low 16 bits of hi and the low 16 bits of lo.
FromHalves(hi, lo) ==
    [i \in BitPos |-> IF i < 16 THEN (lo \div Pow2(i)) % 2
                                ELSE (hi \div Pow2(i - 16)) % 2]

\* Carry into bit position b of x + y + c0.
RECURSIVE CarryInto(_, _, _, _)
CarryInto(x, y, c0, b) ==
    IF b = 0 THEN c0
    ELSE LET c == CarryInto(x, y, c0, b - 1)
         IN  IF x[b - 1] + y[b - 1] + c >= 2 THEN 1 ELSE 0

\* x - y modulo 2^32, computed as x + !y + 1.
WrappingSub32(x, y) ==
    Let(LAMBDA lo :
            Let(LAMBDA hi : FromHalves(hi, lo),
                Half(x, 1) + Half(Not32(y), 1) + (lo \div 65536)),
        Half(x, 0) + Half(Not32(y), 0) + 1)

\* x < y as unsigned numbers: x + !y + 1 has no carry out.
Less32(x, y) == CarryInto(x, Not32(y), 1, BITS) = 0

\* `a - b` on u32: panics on underflow when overflow checks are on, wraps
\* otherwise.
Sub32(x, y) ==
    IF Less32(x, y) /\ overflow_checks THEN Panicked ELSE Ok(WrappingSub32(x, y))

\* `a + b` on u32: panics on overflow when overflow checks are on, wraps
\* otherwise.
Add32(x, y) ==
    Let(LAMBDA lo :
            Let(LAMBDA hi : IF hi >= 65536 /\ overflow_checks THEN Panicked
                            ELSE Ok(FromHalves(hi, lo)),
                Half(x, 1) + Half(y, 1) + (lo \div 65536)),
        Half(x, 0) + Half(y, 0))

\* x >> n for a shift amount 0 <= n < 32.
Shr32(x, n) == [i \in BitPos |-> IF i + n < BITS THEN x[i + n] ELSE 0]

\* u32::leading_zeros and u32::trailing_zeros (32 for 0).
leading_zeros(x) ==
    IF x = [i \in BitPos |-> 0] THEN BITS
    ELSE BITS - 1 - (CHOOSE i \in BitPos : x[i] = 1 /\ \A j \in BitPos : j > i => x[j] = 0)

trailing_zeros(x) ==
    IF x = [i \in BitPos |-> 0] THEN BITS
    ELSE CHOOSE i \in BitPos : x[i] = 1 /\ \A j \in BitPos : j < i => x[j] = 0

\* A number below 2^31 as a u32.
Nat32(n) == [i \in BitPos |-> IF i < BITS - 1 THEN (n \div Pow2(i)) % 2 ELSE 0]

\* u32::one_less_than_next_power_of_two: 0 for x <= 1, otherwise
\* `u32::MAX >> (x - 1).leading_zeros()`.
one_less_than_next_power_of_two(x) ==
    IF Less32(x, Nat32(2)) THEN Zero32
    ELSE Let(LAMBDA z : Shr32(AllOnes, z),
             leading_zeros(WrappingSub32(x, Nat32(1))))

\* u32::next_power_of_two, `one_less_than_next_power_of_two() + 1`: for
\* x > 2^31 the sum overflows, a panic with overflow checks and 0 without.
next_power_of_two(x) ==
    Let(LAMBDA p : Add32(p, Nat32(1)), one_less_than_next_power_of_two(x))

----------------------------------------------------------------------------
(* utils.rs *)

\* `!0 << (32 - bits)`.  `32 - bits` underflows for bits > 32 and the shift
\* overflows for an amount >= 32: both panic with overflow checks; without
\* them the difference wraps modulo 2^32 and the shift uses the amount
\* modulo 32.
subnet_mask(bits) ==
    IF bits > BITS \/ BITS - bits >= BITS
    THEN IF overflow_checks THEN Panicked
         ELSE Ok(Shl32(AllOnes, (BITS - bits) % BITS))
    ELSE Ok(Shl32(AllOnes, BITS - bits))

\* A faulty default_mask: the fallback arm gives a host prefix.
default_mask_fallback_32(ip) ==
    IF ip[1] \in 0..127 THEN 8
    ELSE IF ip[1] \in 128..191 THEN 16
    ELSE IF ip[1] \in 192..223 THEN 24
    ELSE 32

default_mask(ip) ==
    IF ip[1] \in 0..127 THEN 8
    ELSE IF ip[1] \in 128..191 THEN 16
    ELSE IF ip[1] \in 192..223 THEN 24
    ELSE 24

----------------------------------------------------------------------------
(* Text: a &str is a sequence of one-character strings *)

DigitChars == <<"0", "1", "2", "3", "4", "5", "6", "7", "8", "9">>

IsDigit(c) == \E d \in 1..10 : DigitChars[d] = c
DigitVal(c) == (CHOOSE d \in 1..10 : DigitChars[d] = c) - 1

\* Index of the first occurrence of c in s, 0 when there is none.
FirstIndex(s, c) ==
    IF \E i \in 1..Len(s) : s[i] = c
    THEN CHOOSE i \in 1..Len(s) : s[i] = c /\ \A j \in 1..(i - 1) : s[j] # c
    ELSE 0

\* str::split_once: the text before and after the first c, or None.
split_once(s, c) ==
    LET i == FirstIndex(s, c)
    IN  IF i = 0 THEN [some |-> FALSE]
        ELSE [some |-> TRUE,
              before |-> SubSeq(s, 1, i - 1),
              after |-> SubSeq(s, i + 1, Len(s))]

\* The pieces of s between the occurrences of c.
RECURSIVE Split(_, _)
Split(s, c) ==
    LET sp == split_once(s, c)
    IN  IF sp.some THEN <<sp.before>> \o Split(sp.after, c) ELSE <<s>>

\* One group of Ipv4Addr's parser (read_number, radix 10, at most 3 digits,
\* no zero prefix, into a u8): digits are accumulated with checked
\* arithmetic; -1 stands for None.
RECURSIVE read_number(_, _, _)
read_number(t, i, acc) ==
    IF i > Len(t) THEN
        IF Len(t) = 0 THEN -1
        ELSE IF t[1] = "0" /\ Len(t) > 1 THEN -1
        ELSE acc
    ELSE IF ~IsDigit(t[i]) THEN -1
    ELSE IF acc * 10 + DigitVal(t[i]) > 255 THEN -1
    ELSE IF i > 3 THEN -1
    ELSE read_number(t, i + 1, acc * 10 + DigitVal(t[i]))

\* Ipv4Addr::from_str: four groups separated by '.', then end of input.
Ipv4Addr_from_str(s) ==
    LET parts == Split(s, ".")
    IN  IF Len(parts) # 4 THEN Err("AddrParseError")
        ELSE LET o == [k \in 1..4 |-> read_number(parts[k], 1, 0)]
             IN  IF \E k \in 1..4 : o[k] = -1 THEN Err("AddrParseError")
                 ELSE Ok(o)

\* The digits of u32::from_str, accumulated with checked_mul and
\* checked_add against u32::MAX = 4294967295; -1 stands for an error.
RECURSIVE parse_digits(_, _, _)
parse_digits(t, i, acc) ==
    IF i > Len(t) THEN acc
    ELSE IF ~IsDigit(t[i]) THEN -1
    ELSE IF acc > 429496729 \/ (acc = 429496729 /\ DigitVal(t[i]) > 5) THEN -1
    ELSE parse_digits(t, i + 1, acc * 10 + DigitVal(t[i]))

\* str::parse::<u32>: an optional '+', then at least one digit.
parse_u32(t) ==
    LET digits == IF Len(t) > 0 /\ t[1] = "+" THEN Tail(t) ELSE t
        n == parse_digits(digits, 1, 0)
    IN  IF Len(digits) = 0 \/ n = -1 THEN Err("ParseIntError") ELSE Ok(n)

----------------------------------------------------------------------------
(* routes.rs: Route {ip, prefix} *)

Route(ip, prefix) == [ip |-> ip, prefix |-> prefix]

\* A faulty from_str: the prefix is parsed before the address.
from_str_mask_first(subnet) ==
    LET sp == split_once(subnet, "/")
        ip_str == IF sp.some THEN sp.before ELSE subnet
        mask_str == IF sp.some THEN sp.after ELSE <<>>
        ip == Ipv4Addr_from_str(ip_str)
        mask == parse_u32(mask_str)
    IN  IF mask_str # <<>> /\ ~IsOk(mask) THEN Err("InvalidMaskFormat")
        ELSE IF ~IsOk(ip) THEN Err("InvalidIpFormat")
        ELSE IF mask_str = <<>> THEN Ok(Route(ip.val, default_mask(ip.val)))
        ELSE Ok(Route(ip.val, mask.val))

\* Route::from_str
from_str(subnet) ==
    LET sp == split_once(subnet, "/")
        ip_str == IF sp.some THEN sp.before ELSE subnet
        mask_str == IF sp.some THEN sp.after ELSE <<>>
        ip == Ipv4Addr_from_str(ip_str)
    IN  IF ~IsOk(ip) THEN Err("InvalidIpFormat")
        ELSE IF mask_str = <<>> THEN Ok(Route(ip.val, default_mask(ip.val)))
        ELSE LET mask == parse_u32(mask_str)
             IN  IF ~IsOk(mask) THEN Err("InvalidMaskFormat")
                 ELSE Ok(Route(ip.val, mask.val))

\* `2u32.pow(exp)`: the product overflows u32 from exp = 32 on; pow inherits
\* the caller's overflow checks, and wraps to 0 without them.
pow2_u32(exp) ==
    IF exp >= BITS
    THEN IF overflow_checks THEN Panicked ELSE Ok(Zero32)
    ELSE Ok(Bit32(exp))

\* `!mask_to_u32(self.prefix)`, then `ip_u32 | wildcard`.
broadcast_address(route) ==
    LET ip_u32 == ip_to_u32(route.ip)
        mask == subnet_mask(route.prefix)
    IN  IF ~IsOk(mask) THEN Panicked
        ELSE LET wildcard == Not32(mask.val)
             IN  Ok(u32_to_ip(Or32(ip_u32, wildcard)))

netmask_address(route) ==
    LET mask == subnet_mask(route.prefix)
    IN  IF ~IsOk(mask) THEN Panicked ELSE Ok(u32_to_ip(mask.val))

wildcard_address(route) ==
    LET mask == subnet_mask(route.prefix)
    IN  IF ~IsOk(mask) THEN Panicked ELSE Ok(u32_to_ip(Not32(mask.val)))

\* `2u32.pow(32 - self.prefix) - 2`.  For a prefix above 32 the exponent
\* `32 - prefix` underflows: a panic with overflow checks, otherwise an
\* exponent of at least 2^32 - 2^31, for which the power wraps to 0.
available_hosts(route) ==
    LET power == IF route.prefix > BITS
                 THEN IF overflow_checks THEN Panicked ELSE Ok(Zero32)
                 ELSE pow2_u32(BITS - route.prefix)
    IN  IF ~IsOk(power) THEN Panicked ELSE Sub32(power.val, Nat32(2))

\* The fold of find_common_prefix over routes[i..]: `acc & masked_ip`.
RECURSIVE fold_common_prefix(_, _, _)
fold_common_prefix(routes, i, acc) ==
    IF i > Len(routes) THEN Ok(acc)
    ELSE LET mask == subnet_mask(routes[i].prefix)
         IN  IF ~IsOk(mask) THEN Panicked
             ELSE fold_common_prefix(routes, i + 1,
                      And32(acc, And32(ip_to_u32(routes[i].ip), mask.val)))

find_common_prefix(routes) == fold_common_prefix(routes, 1, AllOnes)

\* `(0..32).rev().take_while(..).count()` from bit i down: the number of
\* leading positions on which every address has the first one's bit.
RECURSIVE take_while_common(_, _)
take_while_common(ips, i) ==
    IF i < 0 THEN 0
    ELSE IF \A k \in 1..Len(ips) : ips[k][i] = ips[1][i]
         THEN 1 + take_while_common(ips, i - 1)
         ELSE 0

Min(a, b) == IF a <= b THEN a ELSE b
Max(S) == CHOOSE m \in S : \A x \in S : x <= m

count_common_bits(routes) ==
    LET ips == [k \in 1..Len(routes) |-> ip_to_u32(routes[k].ip)]
        max_prefix_lenght == Max({routes[k].prefix : k \in 1..Len(routes)})
        common_bit_count == take_while_common(ips, BITS - 1)
    IN  Min(common_bit_count, max_prefix_lenght)

\* A faulty aggregate_routes: no early return for a single route.
aggregate_routes_no_single(routes) ==
    IF Len(routes) = 0 THEN Err("EmptyNetworkList")
    ELSE LET common_prefix == find_common_prefix(routes)
             common_bits == count_common_bits(routes)
             new_mask == subnet_mask(common_bits)
         IN  IF ~IsOk(common_prefix) \/ ~IsOk(new_mask) THEN Panicked
             ELSE Ok(Route(u32_to_ip(And32(common_prefix.val, new_mask.val)),
                           common_bits))

aggregate_routes(routes) ==
    IF Len(routes) = 0 THEN Err("EmptyNetworkList")
    ELSE IF Len(routes) = 1 THEN Ok(routes[1])
    ELSE LET common_prefix == find_common_prefix(routes)
             common_bits == count_common_bits(routes)
             new_mask == subnet_mask(common_bits)
         IN  IF ~IsOk(common_prefix) \/ ~IsOk(new_mask) THEN Panicked
             ELSE Ok(Route(u32_to_ip(And32(common_prefix.val, new_mask.val)),
                           common_bits))

\* determine_subnet_mask with the zero-count check after the bit guards.
determine_subnet_mask_bits_first(mask, required_subnets, required_hosts) ==
    LET sum == Add32(required_hosts, Nat32(2))
        hosts_pow == IF IsOk(sum) THEN next_power_of_two(sum.val) ELSE Panicked
        subnets_pow == next_power_of_two(required_subnets)
    IN  IF ~IsOk(hosts_pow) \/ ~IsOk(subnets_pow) THEN Panicked
        ELSE
        LET host_bits == trailing_zeros(hosts_pow.val)
            subnet_bits == trailing_zeros(subnets_pow.val)
        IN  IF mask < host_bits THEN Err("InsufficientBits")
            ELSE IF mask > BITS /\ overflow_checks THEN Panicked
            ELSE IF mask <= BITS /\ subnet_bits > BITS - mask
                 THEN Err("InsufficientBits")
            ELSE IF required_hosts = Zero32 \/ required_subnets = Zero32
                 THEN Err("InvalidHostsOrSubnets")
            ELSE LET new_mask_prefix == mask + subnet_bits
                     new_mask == subnet_mask(new_mask_prefix)
                 IN  IF ~IsOk(new_mask) THEN Panicked
                     ELSE Ok(u32_to_ip(new_mask.val))

\* routes.rs determine_subnet_mask
determine_subnet_mask(mask, required_subnets, required_hosts) ==
    IF required_hosts = Zero32 \/ required_subnets = Zero32
    THEN Err("InvalidHostsOrSubnets")
    ELSE
    LET sum == Add32(required_hosts, Nat32(2))
        hosts_pow == IF IsOk(sum) THEN next_power_of_two(sum.val) ELSE Panicked
        subnets_pow == next_power_of_two(required_subnets)
    IN  IF ~IsOk(hosts_pow) \/ ~IsOk(subnets_pow) THEN Panicked
        ELSE
        LET host_bits == trailing_zeros(hosts_pow.val)
            subnet_bits == trailing_zeros(subnets_pow.val)
        IN  IF mask < host_bits THEN Err("InsufficientBits")
            \* `32 - mask` underflows for mask > 32: a panic, or a
            \* wrapped difference no subnet_bits exceeds.
            ELSE IF mask > BITS /\ overflow_checks THEN Panicked
            ELSE IF mask <= BITS /\ subnet_bits > BITS - mask
                 THEN Err("InsufficientBits")
            ELSE LET new_mask_prefix == mask + subnet_bits
                     new_mask == subnet_mask(new_mask_prefix)
                 IN  IF ~IsOk(new_mask) THEN Panicked
                     ELSE Ok(u32_to_ip(new_mask.val))

----------------------------------------------------------------------------
(* subnet.rs: Network {ip, mask} *)

Network(ip, mask) == [ip |-> ip, mask |-> mask]

Network_default_mask(ip) ==
    IF ip[1] \in 0..127 THEN 8
    ELSE IF ip[1] \in 128..191 THEN 16
    ELSE IF ip[1] \in 192..223 THEN 24
    ELSE 24

\* Network::from_str
Network_from_str(subnet) ==
    LET sp == split_once(subnet, "/")
        ip_str == IF sp.some THEN sp.before ELSE subnet
        mask_str == IF sp.some THEN sp.after ELSE <<>>
        ip == Ipv4Addr_from_str(ip_str)
    IN  IF ~IsOk(ip) THEN Err("InvalidIpFormat")
        ELSE IF mask_str = <<>>
             THEN Ok(Network(ip.val, Network_default_mask(ip.val)))
        ELSE LET mask == parse_u32(mask_str)
             IN  IF ~IsOk(mask) THEN Err("InvalidMaskFormat")
                 ELSE Ok(Network(ip.val, mask.val))

\* Network::mask_to_u32, `!0 << (32 - mask)`.
Network_mask_to_u32(mask) ==
    IF mask > BITS \/ BITS - mask >= BITS
    THEN IF overflow_checks THEN Panicked
         ELSE Ok(Shl32(AllOnes, (BITS - mask) % BITS))
    ELSE Ok(Shl32(AllOnes, BITS - mask))

RECURSIVE Network_fold_common_prefix(_, _, _)
Network_fold_common_prefix(networks, i, acc) ==
    IF i > Len(networks) THEN Ok(acc)
    ELSE LET mask == Network_mask_to_u32(networks[i].mask)
         IN  IF ~IsOk(mask) THEN Panicked
             ELSE Network_fold_common_prefix(networks, i + 1,
                      And32(acc, And32(ip_to_u32(networks[i].ip), mask.val)))

Network_find_common_prefix(networks) ==
    Network_fold_common_prefix(networks, 1, AllOnes)

Network_count_common_bits(networks) ==
    take_while_common([k \in 1..Len(networks) |-> ip_to_u32(networks[k].ip)],
                      BITS - 1)

aggregate_networks(networks) ==
    IF Len(networks) = 0 THEN Err("EmptyNetworkList")
    ELSE IF Len(networks) = 1 THEN Ok(networks[1])
    ELSE LET common_prefix == Network_find_common_prefix(networks)
             common_bits == Network_count_common_bits(networks)
             new_mask == Network_mask_to_u32(common_bits)
         IN  IF ~IsOk(common_prefix) \/ ~IsOk(new_mask) THEN Panicked
             ELSE Ok(Network(u32_to_ip(And32(common_prefix.val, new_mask.val)),
                             common_bits))

\* Network::determine_subnet_mask
Network_determine_subnet_mask(mask, required_subnets, required_hosts) ==
    IF required_hosts = Zero32 \/ required_subnets = Zero32
    THEN Err("InvalidHostsOrSubnets")
    ELSE
    LET sum == Add32(required_hosts, Nat32(2))
        hosts_pow == IF IsOk(sum) THEN next_power_of_two(sum.val) ELSE Panicked
        subnets_pow == next_power_of_two(required_subnets)
    IN  IF ~IsOk(hosts_pow) \/ ~IsOk(subnets_pow) THEN Panicked
        ELSE
        LET host_bits == trailing_zeros(hosts_pow.val)
            subnet_bits == trailing_zeros(subnets_pow.val)
        IN  IF mask < host_bits THEN Err("InsufficientBits")
            \* `32 - mask` underflows for mask > 32: a panic, or a
            \* wrapped difference no subnet_bits exceeds.
            ELSE IF mask > BITS /\ overflow_checks THEN Panicked
            ELSE IF mask <= BITS /\ subnet_bits > BITS - mask
                 THEN Err("InsufficientBits")
            ELSE LET new_mask_prefix == mask + subnet_bits
                     new_mask == Network_mask_to_u32(new_mask_prefix)
                 IN  IF ~IsOk(new_mask) THEN Panicked
                     ELSE Ok(u32_to_ip(new_mask.val))

----------------------------------------------------------------------------
(* bin/cli.rs *)

\* handle_mask: a parse error is returned to main; otherwise the solver's
\* outcome is printed and Ok(()) returned.  Ok(r) stands for "printed r".
handle_mask(network, required_hosts, required_networks) ==
    LET parsed_network == Network_from_str(network)
    IN  IF ~IsOk(parsed_network) THEN parsed_network
        ELSE LET r == Network_determine_subnet_mask(parsed_network.val.mask,
                          required_hosts, required_networks)
             IN  IF r = Panicked THEN Panicked ELSE Ok(r)

----------------------------------------------------------------------------
(* lib.rs: subnets as (Ipv4Addr, u32) pairs *)

\* `(!0 << (32 - mask)) & 0xFFFFFFFF`
lib_mask_to_u32(mask) ==
    IF mask > BITS \/ BITS - mask >= BITS
    THEN IF overflow_checks THEN Panicked
         ELSE Ok(And32(Shl32(AllOnes, (BITS - mask) % BITS), AllOnes))
    ELSE Ok(And32(Shl32(AllOnes, BITS - mask), AllOnes))

\* The loop of find_common_prefix_length from bit i down.
RECURSIVE prefix_len_from(_, _)
prefix_len_from(subnets, i) ==
    IF i < 0 THEN 0
    ELSE IF \A k \in 1..Len(subnets) :
                ip_to_u32(subnets[k][1])[i] = ip_to_u32(subnets[1][1])[i]
         THEN 1 + prefix_len_from(subnets, i - 1)
         ELSE 0

find_common_prefix_length(subnets) == prefix_len_from(subnets, BITS - 1)

\* The fold of aggregate_subnets over subnets[i..].
RECURSIVE lib_fold(_, _, _)
lib_fold(subnets, i, acc) ==
    IF i > Len(subnets) THEN Ok(acc)
    ELSE LET mask == lib_mask_to_u32(subnets[i][2])
         IN  IF ~IsOk(mask) THEN Panicked
             ELSE lib_fold(subnets, i + 1,
                      And32(acc, And32(ip_to_u32(subnets[i][1]), mask.val)))

aggregate_subnets(subnets) ==
    IF Len(subnets) = 0 THEN Err("Subnet list is empty")
    ELSE LET first_mask == lib_mask_to_u32(subnets[1][2])
         IN  IF ~IsOk(first_mask) THEN Panicked
             ELSE
             LET first_subnet == And32(ip_to_u32(subnets[1][1]), first_mask.val)
                 common_prefix == lib_fold(subnets, 2, first_subnet)
                 common_bits == find_common_prefix_length(subnets)
                 \* `!0 << (32 - common_bits)`, common_bits <= 32
                 shifted == IF BITS - common_bits >= BITS
                            THEN IF overflow_checks THEN Panicked
                                 ELSE Ok(Shl32(AllOnes, (BITS - common_bits) % BITS))
                            ELSE Ok(Shl32(AllOnes, BITS - common_bits))
             IN  IF ~IsOk(common_prefix) \/ ~IsOk(shifted) THEN Panicked
                 ELSE Ok(<<u32_to_ip(And32(common_prefix.val, shifted.val)),
                           common_bits>>)

----------------------------------------------------------------------------
(* Inputs *)

Prefixes == 0..BITS

Addrs ==
    { <<192, 168, 100, 0>>, <<192, 168, 100, 32>>, <<192, 168, 100, 64>>,
      <<192, 168, 1, 77>>, <<10, 0, 0, 0>>, <<64, 0, 0, 0>>,
      <<0, 0, 0, 0>>, <<255, 255, 255, 255>> }

Routes == {Route(ip, p) : ip \in Addrs, p \in Prefixes}

\* Networks for the lists of two or more: addresses that share 0, 18 or 25
\* leading bits or all 32, with and without host bits.
AggAddrs ==
    { <<192, 168, 100, 0>>, <<192, 168, 100, 32>>, <<192, 168, 100, 64>>,
      <<192, 168, 1, 77>>, <<64, 0, 0, 0>> }

AggPrefixes == {0, 8, 26, 27, 32}

AggRoutes == {Route(ip, p) : ip \in AggAddrs, p \in AggPrefixes}

\* Base prefixes for the mask solver: every prefix, and one past the width.
BasePrefixes == 0..(BITS + 1)

\* Required counts: 0, small counts around powers of two, and the counts
\* around 2^31 and 2^32 where `+ 2` and next_power_of_two overflow.
Counts ==
    {Nat32(n) : n \in {0, 1, 2, 3, 90, 126, 127, 200, 320,
                       2147483646, 2147483647}}
    \cup {Bit32(BITS - 1), Or32(Bit32(BITS - 1), Nat32(1))}
    \cup {Not32(Nat32(k)) : k \in 0..2}

\* The lists of networks: none, every single network, and the lists of
\* 2..MaxLen networks of AggRoutes.
RouteLists ==
    {<<>>} \cup {<<r>> : r \in Routes}
           \cup UNION {[1..n -> AggRoutes] : n \in 2..MaxLen}

AsNetwork(r) == Network(r.ip, r.prefix)
AsPair(r) == <<r.ip, r.prefix>>

\* The decimal text of a number, as Display writes it.
RECURSIVE Dec(_)
Dec(n) == IF n < 10 THEN <<DigitChars[n + 1]>>
          ELSE Dec(n \div 10) \o <<DigitChars[(n % 10) + 1]>>

\* The dotted-decimal text of an address.
Dotted(ip) ==
    Dec(ip[1]) \o <<".">> \o Dec(ip[2]) \o <<".">> \o Dec(ip[3]) \o <<".">> \o Dec(ip[4])

TextAddrs ==
    { <<0, 0, 0, 0>>, <<10, 0, 0, 1>>, <<127, 255, 255, 255>>,
      <<128, 0, 0, 0>>, <<172, 16, 0, 1>>, <<191, 255, 0, 9>>,
      <<192, 168, 1, 10>>, <<192, 168, 100, 0>>, <<223, 1, 1, 1>>,
      <<224, 0, 0, 1>>, <<240, 0, 0, 1>>, <<255, 255, 255, 255>> }

\* Texts that are not addresses.
BadAddrTexts ==
    { <<"i", "n", "v", "a", "l", "i", "d">>,
      <<>>,
      Dotted(<<192, 168, 100, 0>>) \o <<"-">> \o Dec(27),
      <<"2", "5", "6", ".", "1", ".", "1", ".", "1">>,
      <<"1", ".", "2", ".", "3">>,
      <<"1", ".", "2", ".", "3", ".", "4", ".", "5">>,
      <<"1", ".", ".", "2", ".", "3">>,
      <<"1", ".", "2", ".", "3", ".">>,
      <<"1", ".", "2", ".", "3", ".", "4", " ">>,
      <<"1", ".", "2", ".", "3", ".", "1", "0", "0", "0">>,
      <<"a", ".", "b", ".", "c", ".", "d">>,
      <<"-", "1", ".", "2", ".", "3", ".", "4">> }

\* Addresses written with a zero prefix or a sign.
OddAddrTexts ==
    { <<"0", "1", ".", "2", ".", "3", ".", "4">>,
      <<"+", "1", ".", "2", ".", "3", ".", "4">> }

AddrTexts == {Dotted(ip) : ip \in TextAddrs} \cup BadAddrTexts \cup OddAddrTexts

\* Texts after the slash.
MaskTexts ==
    { <<>>, Dec(0), Dec(8), Dec(24), Dec(27), Dec(32), Dec(33), Dec(255),
      <<"x", "x">>, <<"-", "1">>, <<"+", "8">>, <<"0", "8">>, <<" ", "8">>,
      <<"8", " ">>, <<"5", "/", "6">>, <<"+">>,
      <<"9", "9", "9", "9", "9", "9", "9", "9", "9", "9", "9">> }

Texts == AddrTexts \cup {a \o <<"/">> \o m : a \in AddrTexts, m \in MaskTexts}

\* Arguments of the `mask` command.
MaskCommandTexts ==
    { Dotted(<<172, 16, 0, 0>>) \o <<"/">> \o Dec(16),
      Dotted(<<192, 168, 1, 0>>) \o <<"/">> \o Dec(24),
      Dotted(<<10, 0, 0, 1>>),
      Dotted(<<10, 0, 0, 0>>) \o <<"/">> \o Dec(33),
      Dotted(<<10, 0, 0, 0>>) \o <<"/">> \o <<"x">>,
      <<"i", "n", "v", "a", "l", "i", "d">> }

----------------------------------------------------------------------------
(* State machine *)

Init ==
    /\ overflow_checks \in BOOLEAN
    /\ pc = "start"
    /\ op = "none"
    /\ arg = <<>>
    /\ result = Ok(<<>>)

SubnetMask ==
    /\ pc = "start"
    /\ \E bits \in Prefixes :
        /\ op' = "subnet_mask"
        /\ arg' = bits
        /\ result' = subnet_mask(bits)
    /\ pc' = "done"
    /\ UNCHANGED overflow_checks

MaskToU32 ==
    /\ pc = "start"
    /\ \E mask \in Prefixes :
        /\ op' = "Network_mask_to_u32"
        /\ arg' = mask
        /\ result' = Network_mask_to_u32(mask)
    /\ pc' = "done"
    /\ UNCHANGED overflow_checks

BroadcastAddress ==
    /\ pc = "start"
    /\ \E r \in Routes :
        /\ op' = "broadcast_address"
        /\ arg' = r
        /\ result' = broadcast_address(r)
    /\ pc' = "done"
    /\ UNCHANGED overflow_checks

AvailableHosts ==
    /\ pc = "start"
    /\ \E r \in Routes :
        /\ op' = "available_hosts"
        /\ arg' = r
        /\ result' = available_hosts(r)
    /\ pc' = "done"
    /\ UNCHANGED overflow_checks

RouteFromStr ==
    /\ pc = "start"
    /\ \E s \in Texts :
        /\ op' = "from_str"
        /\ arg' = s
        /\ result' = from_str(s)
    /\ pc' = "done"
    /\ UNCHANGED overflow_checks

NetworkFromStr ==
    /\ pc = "start"
    /\ \E s \in Texts :
        /\ op' = "Network_from_str"
        /\ arg' = s
        /\ result' = Network_from_str(s)
    /\ pc' = "done"
    /\ UNCHANGED overflow_checks

AggregateRoutes ==
    /\ pc = "start"
    /\ \E routes \in RouteLists :
        /\ op' = "aggregate_routes"
        /\ arg' = routes
        /\ result' = aggregate_routes(routes)
    /\ pc' = "done"
    /\ UNCHANGED overflow_checks

AggregateNetworks ==
    /\ pc = "start"
    /\ \E routes \in RouteLists :
        LET networks == [k \in 1..Len(routes) |-> AsNetwork(routes[k])]
        IN  /\ op' = "aggregate_networks"
            /\ arg' = networks
            /\ result' = aggregate_networks(networks)
    /\ pc' = "done"
    /\ UNCHANGED overflow_checks

AggregateSubnets ==
    /\ pc = "start"
    /\ \E routes \in RouteLists :
        LET subnets == [k \in 1..Len(routes) |-> AsPair(routes[k])]
        IN  /\ op' = "aggregate_subnets"
            /\ arg' = subnets
            /\ result' = aggregate_subnets(subnets)
    /\ pc' = "done"
    /\ UNCHANGED overflow_checks

DetermineSubnetMask ==
    /\ pc = "start"
    /\ \E mask \in BasePrefixes, required_subnets \in Counts,
          required_hosts \in Counts :
        /\ op' = "determine_subnet_mask"
        /\ arg' = [mask |-> mask, required_subnets |-> required_subnets,
                   required_hosts |-> required_hosts]
        /\ result' = determine_subnet_mask(mask, required_subnets,
                                           required_hosts)
    /\ pc' = "done"
    /\ UNCHANGED overflow_checks

NetworkDetermineSubnetMask ==
    /\ pc = "start"
    /\ \E mask \in BasePrefixes, required_subnets \in Counts,
          required_hosts \in Counts :
        /\ op' = "Network_determine_subnet_mask"
        /\ arg' = [mask |-> mask, required_subnets |-> required_subnets,
                   required_hosts |-> required_hosts]
        /\ result' = Network_determine_subnet_mask(mask, required_subnets,
                                                   required_hosts)
    /\ pc' = "done"
    /\ UNCHANGED overflow_checks

\* Commands::Mask { network, hosts, networks_number } handed to handle_mask.
HandleMask ==
    /\ pc = "start"
    /\ \E network \in MaskCommandTexts, hosts \in Counts,
          networks_number \in Counts :
        /\ op' = "handle_mask"
        /\ arg' = [network |-> network, hosts |-> hosts,
                   networks_number |-> networks_number]
        /\ result' = handle_mask(network, hosts, networks_number)
    /\ pc' = "done"
    /\ UNCHANGED overflow_checks

Next ==
    \/ SubnetMask
    \/ DetermineSubnetMask
    \/ NetworkDetermineSubnetMask
    \/ HandleMask
    \/ AggregateRoutes
    \/ AggregateNetworks
    \/ AggregateSubnets
    \/ RouteFromStr
    \/ NetworkFromStr
    \/ MaskToU32
    \/ BroadcastAddress
    \/ AvailableHosts

Spec == Init /\ [][Next]_vars

----------------------------------------------------------------------------
(* Properties *)

Done(name) == pc = "done" /\ op = name

\* The u32 whose top p bits are 1 and whose other bits are 0.
TopBits(p) == [i \in BitPos |-> IF i >= BITS - p THEN 1 ELSE 0]

PopCount(x) == Cardinality({i \in BitPos : x[i] = 1})

\* C1: for every prefix length p in [0,32] the mask function returns the
\* value whose top p bits are set and whose other bits are clear, so its
\* popcount is p (0 for p = 0, all ones for p = 32).
C1_MaskHasTopBitsSet ==
    (Done("subnet_mask") \/ Done("Network_mask_to_u32")) =>
        /\ IsOk(result)
        /\ result.val = TopBits(arg)
        /\ PopCount(result.val) = arg

\* The mask function is right for every prefix from 1 to 32.
MaskRightFromOne ==
    ((Done("subnet_mask") \/ Done("Network_mask_to_u32")) /\ arg >= 1) =>
        /\ IsOk(result)
        /\ result.val = TopBits(arg)
        /\ PopCount(result.val) = arg

\* 2^(32-p) - 2 for p <= 31: bits 1..(31-p) set.
HostCount(p) == [i \in BitPos |-> IF i >= 1 /\ i < BITS - p THEN 1 ELSE 0]

\* C9: available_hosts returns 2^(32-p) - 2 for p in [0,30] and 0 for p = 31
\* and p = 32, and never overflows or underflows u32 arithmetic.
C9_AvailableHostsClamped ==
    Done("available_hosts") =>
        /\ IsOk(result)
        /\ arg.prefix <= 30 => result.val = HostCount(arg.prefix)
        /\ arg.prefix >= 31 => result.val = Zero32

\* available_hosts is 2^(32-p) - 2 for every p from 1 to 31.
HostsRightFromOneToThirtyOne ==
    (Done("available_hosts") /\ arg.prefix \in 1..31) =>
        IsOk(result) /\ result.val = HostCount(arg.prefix)

\* C10: broadcast_address(N) = (N.address & mask(p)) | wildcard(p), where
\* wildcard(p) is the complement of mask(p): the top p bits are the
\* address's and the low 32-p bits are all 1.
C10_BroadcastIsMaskedOrWildcard ==
    Done("broadcast_address") =>
        /\ IsOk(result)
        /\ ip_to_u32(result.val) =
               Or32(And32(ip_to_u32(arg.ip), TopBits(arg.prefix)),
                    Not32(TopBits(arg.prefix)))

\* The first and last address of the range of (ip, prefix).
Masked(ip, p) == And32(ip_to_u32(ip), TopBits(p))
RangeEnd(ip, p) == Or32(Masked(ip, p), Not32(TopBits(p)))
Leq32(x, y) == ~Less32(y, x)

\* C2: for every list of two or more networks, the network returned by
\* aggregate_routes covers the masked address of every input:
\* (masked_i & mask(result.prefix)) = result.ip.
C2_AggregateCoversMaskedAddresses ==
    (Done("aggregate_routes") /\ Len(arg) >= 2) =>
        /\ IsOk(result)
        /\ \A i \in 1..Len(arg) :
               And32(Masked(arg[i].ip, arg[i].prefix),
                     TopBits(result.val.prefix)) = ip_to_u32(result.val.ip)

\* C3: for every non-empty list, the network returned by aggregate_routes
\* contains every input network entirely: its prefix is at most the
\* input's and the input's range lies in its range.
C3_AggregateContainsInputs ==
    (Done("aggregate_routes") /\ Len(arg) >= 1) =>
        /\ IsOk(result)
        /\ \A i \in 1..Len(arg) :
               /\ result.val.prefix <= arg[i].prefix
               /\ Leq32(Masked(result.val.ip, result.val.prefix),
                        Masked(arg[i].ip, arg[i].prefix))
               /\ Leq32(RangeEnd(arg[i].ip, arg[i].prefix),
                        RangeEnd(result.val.ip, result.val.prefix))

\* C4: aggregating a list of exactly one network returns that network
\* unchanged (same address bits, same prefix), so aggregating the list made
\* of an aggregate returns that aggregate; for aggregate_routes and
\* Network::aggregate_networks.
C4_SingleNetworkUnchanged ==
    /\ Done("aggregate_routes") =>
           /\ Len(arg) = 1 => result = Ok(arg[1])
           /\ IsOk(result) => aggregate_routes(<<result.val>>) = result
    /\ Done("aggregate_networks") =>
           /\ Len(arg) = 1 => result = Ok(arg[1])
           /\ IsOk(result) => aggregate_networks(<<result.val>>) = result

C4_Witness ==
    /\ Done("aggregate_routes")
    /\ arg = <<Route(<<192, 168, 1, 77>>, 8)>>
    /\ result = Ok(Route(<<192, 168, 1, 77>>, 8))

\* C5: aggregate_subnets, given a list of exactly one (address, prefix)
\* pair, returns that pair unchanged.
C5_SingleSubnetUnchanged ==
    (Done("aggregate_subnets") /\ Len(arg) = 1) => result = Ok(arg[1])

\* The text before the first '/', or the whole text when there is none.
HasSlash(s) == \E i \in 1..Len(s) : s[i] = "/"
AddrPart(s) == IF HasSlash(s) THEN split_once(s, "/").before ELSE s
MaskPart(s) == split_once(s, "/").after

OctetTexts == {Dec(n) : n \in 0..255}

\* Four dot-separated octets in 0..255.
IsAddressText(t) ==
    /\ Cardinality({i \in 1..Len(t) : t[i] = "."}) = 3
    /\ \A k \in 1..4 : Split(t, ".")[k] \in OctetTexts

\* An integer in [0,32], possibly written with a sign or a zero in front.
IsPrefixText(t) ==
    \E n \in 0..BITS :
        t \in {Dec(n), <<"+">> \o Dec(n), <<"0">> \o Dec(n)}

Parsed == Done("from_str") \/ Done("Network_from_str")
PrefixOf(n) == IF "prefix" \in DOMAIN n THEN n.prefix ELSE n.mask

\* C6: parsing "A.B.C.D/P" with a valid address fails with
\* InvalidMaskFormat whenever P is not an integer in [0,32], and never
\* yields a network whose prefix lies outside [0,32].
C6_OutOfRangePrefixRejected ==
    (Parsed /\ HasSlash(arg) /\ IsAddressText(AddrPart(arg))) =>
        /\ ~IsPrefixText(MaskPart(arg)) => result = Err("InvalidMaskFormat")
        /\ IsOk(result) => PrefixOf(result.val) \in 0..BITS

\* C7: parsing fails with InvalidIpFormat whenever the part before the
\* first '/' (the whole text when there is none) is not four dot-separated
\* octets in 0..255, whatever the prefix part is.
C7_BadAddressIsInvalidIpFormat ==
    (Parsed /\ ~IsAddressText(AddrPart(arg))) =>
        result = Err("InvalidIpFormat")

C7_Witness ==
    /\ Done("from_str")
    /\ arg = <<"i", "n", "v", "a", "l", "i", "d", "/", "x", "x">>
    /\ result = Err("InvalidIpFormat")

\* C8: parsing a valid bare address succeeds and yields the address
\* verbatim, with prefix 8 for a first octet in 0..127, 16 for 128..191 and
\* 24 for 192..255.
C8_BareAddressGetsClassPrefix ==
    (Parsed /\ ~HasSlash(arg) /\ IsAddressText(arg)) =>
        /\ IsOk(result)
        /\ Dotted(result.val.ip) = arg
        /\ result.val.ip[1] <= 127 => PrefixOf(result.val) = 8
        /\ result.val.ip[1] \in 128..191 => PrefixOf(result.val) = 16
        /\ result.val.ip[1] >= 192 => PrefixOf(result.val) = 24

C8_Witness ==
    /\ Done("from_str")
    /\ arg = Dotted(<<224, 0, 0, 1>>)
    /\ result = Ok(Route(<<224, 0, 0, 1>>, 24))

----------------------------------------------------------------------------
(* Mask solver *)

\* A solver call with a base prefix in [0,32] and both counts at least 1.
SolverCall ==
    /\ Done("determine_subnet_mask") \/ Done("Network_determine_subnet_mask")
    /\ arg.mask <= BITS
    /\ arg.required_subnets # Zero32
    /\ arg.required_hosts # Zero32

\* The prefix length of a returned mask.
PrefixOfMask(ip) == PopCount(ip_to_u32(ip))

\* count <= 2^b, for b in 0..32.
FitsPow2(count, b) == b >= BITS \/ Leq32(count, Bit32(b))

\* count <= 2^b - 2, for b in 0..32.
FitsHosts(count, b) == b >= 1 /\ Leq32(count, HostCount(BITS - b))

\* C11: whenever the solver succeeds with new prefix n, the returned mask
\* satisfies both requirements: 2^(n - basePrefix) >= requiredSubnets and
\* 2^(32 - n) - 2 >= requiredHosts, for basePrefix in [0,32] and counts >= 1.
C11_MaskMeetsBothRequirements ==
    (SolverCall /\ IsOk(result)) =>
        LET n == PrefixOfMask(result.val)
        IN  /\ result.val = u32_to_ip(TopBits(n))
            /\ n >= arg.mask
            /\ FitsPow2(arg.required_subnets, n - arg.mask)
            /\ FitsHosts(arg.required_hosts, BITS - n)

\* The subnet requirement alone is met by every mask the solver returns.
SubnetRequirementMet ==
    (SolverCall /\ IsOk(result)) =>
        LET n == PrefixOfMask(result.val)
        IN  /\ n >= arg.mask
            /\ FitsPow2(arg.required_subnets, n - arg.mask)

\* ceil(log2(count + 2)): the least b with count + 2 <= 2^b; 33 for 2^32 - 1.
HostBitsNeeded(count) ==
    IF \E b \in 0..BITS : FitsHosts(count, b)
    THEN CHOOSE b \in 0..BITS :
             FitsHosts(count, b) /\ \A c \in 0..(b - 1) : ~FitsHosts(count, c)
    ELSE BITS + 1

\* ceil(log2(count)): the least b with count <= 2^b.
SubnetBitsNeeded(count) ==
    CHOOSE b \in 0..BITS :
        FitsPow2(count, b) /\ \A c \in 0..(b - 1) : ~FitsPow2(count, c)

\* The outcome the contract gives for (basePrefix, requiredSubnets,
\* requiredHosts) with both counts at least 1.
SolverContract(mask, required_subnets, required_hosts) ==
    LET hostBits == HostBitsNeeded(required_hosts)
        subnetBits == SubnetBitsNeeded(required_subnets)
    IN  IF mask < hostBits \/ subnetBits > BITS - mask
        THEN Err("InsufficientBits")
        ELSE Ok(u32_to_ip(TopBits(mask + subnetBits)))

\* C12: for every basePrefix in [0,32] and both counts >= 1, the solver fails
\* with InsufficientBits exactly when basePrefix < ceil(log2(requiredHosts + 2))
\* or ceil(log2(requiredSubnets)) > 32 - basePrefix, and otherwise returns the
\* netmask for prefix basePrefix + subnetBits.
C12_InsufficientBitsExactly ==
    SolverCall =>
        result = SolverContract(arg.mask, arg.required_subnets,
                                arg.required_hosts)

\* count + 2 <= 2^31 resp. count <= 2^31: no step of the solver overflows.
HostsBelowOverflow(count) == FitsHosts(count, BITS - 1)
SubnetsBelowOverflow(count) == FitsPow2(count, BITS - 1)

\* The solver follows the contract for all counts below the overflows.
SolverContractBelowOverflow ==
    (/\ SolverCall
     /\ HostsBelowOverflow(arg.required_hosts)
     /\ SubnetsBelowOverflow(arg.required_subnets)) =>
        result = SolverContract(arg.mask, arg.required_subnets,
                                arg.required_hosts)

\* Without overflow checks the solver follows the contract for every host
\* count up to 2^32 - 3.
SolverContractWrapping ==
    (/\ SolverCall
     /\ ~overflow_checks
     /\ arg.required_hosts \notin {AllOnes, Not32(Nat32(1))}) =>
        result = SolverContract(arg.mask, arg.required_subnets,
                                arg.required_hosts)

\* C13: the solver fails with InvalidHostsOrSubnets whenever requiredSubnets
\* is 0 or requiredHosts is 0, for every basePrefix; a zero count never
\* yields InsufficientBits or a mask.
C13_ZeroCountIsInvalidHostsOrSubnets ==
    (/\ Done("determine_subnet_mask") \/ Done("Network_determine_subnet_mask")
     /\ arg.required_subnets = Zero32 \/ arg.required_hosts = Zero32) =>
        result = Err("InvalidHostsOrSubnets")

\* A zero host count with a base prefix too short for any host bits is
\* reported as InvalidHostsOrSubnets.
C13_Witness ==
    /\ Done("determine_subnet_mask")
    /\ arg.mask = 0
    /\ arg.required_subnets = Nat32(320)
    /\ arg.required_hosts = Zero32
    /\ result = Err("InvalidHostsOrSubnets")

----------------------------------------------------------------------------
(* Aggregation: errors, clamp, canonical form *)

\* C14: aggregation of an empty network list fails with EmptyNetworkList;
\* aggregation of any non-empty list of networks with prefixes in [0,32]
\* returns a network and never an error.
C14_OnlyEmptyListFails ==
    (Done("aggregate_routes") \/ Done("aggregate_networks")) =>
        /\ Len(arg) = 0 => result = Err("EmptyNetworkList")
        /\ Len(arg) >= 1 => IsOk(result)

\* The empty list is rejected, and every non-empty list gives a network
\* when the build has no overflow checks.
OnlyEmptyListFailsWrapping ==
    ((Done("aggregate_routes") \/ Done("aggregate_networks"))
        /\ ~overflow_checks) =>
        /\ Len(arg) = 0 => result = Err("EmptyNetworkList")
        /\ Len(arg) >= 1 => IsOk(result)

\* The number of leading bit positions, from bit 31 down, on which every
\* address of ips agrees with the first.
AgreeAt(ips, i) == \A k \in 1..Len(ips) : ips[k][i] = ips[1][i]
LeadingAgreement(ips) ==
    Cardinality({i \in BitPos : \A j \in BitPos : j >= i => AgreeAt(ips, j)})

\* C15: for every list of two or more networks, the prefix length of the
\* aggregate equals min(L, M), L the number of leading bits on which every
\* input's raw address agrees with the first input's and M the largest
\* input prefix; so the aggregate's prefix never exceeds the largest input
\* prefix. For aggregate_routes and Network::aggregate_networks.
C15_AggregatePrefixIsClampedCommonLength ==
    /\ (Done("aggregate_routes") /\ Len(arg) >= 2 /\ IsOk(result)) =>
           result.val.prefix =
               Min(LeadingAgreement([k \in 1..Len(arg) |->
                                        ip_to_u32(arg[k].ip)]),
                   Max({arg[k].prefix : k \in 1..Len(arg)}))
    /\ (Done("aggregate_networks") /\ Len(arg) >= 2 /\ IsOk(result)) =>
           result.val.mask =
               Min(LeadingAgreement([k \in 1..Len(arg) |->
                                        ip_to_u32(arg[k].ip)]),
                   Max({arg[k].mask : k \in 1..Len(arg)}))

\* Every aggregate that aggregate_routes returns for two or more networks
\* has the clamped common length as its prefix.
RoutesPrefixIsClampedCommonLength ==
    (Done("aggregate_routes") /\ Len(arg) >= 2 /\ IsOk(result)) =>
        result.val.prefix =
            Min(LeadingAgreement([k \in 1..Len(arg) |-> ip_to_u32(arg[k].ip)]),
                Max({arg[k].prefix : k \in 1..Len(arg)}))

\* The addresses of a list differ in the most significant bit.
DifferInTopBit(routes) ==
    \E k \in 1..Len(routes) :
        ip_to_u32(routes[k].ip)[BITS - 1] # ip_to_u32(routes[1].ip)[BITS - 1]

\* C16: for every list of two or more networks, the aggregate returned by
\* aggregate_routes is canonical: its address has no bit set below its
\* prefix length, with mask(0) = 0; when the inputs' addresses differ in the
\* most significant bit the result is exactly 0.0.0.0/0.
C16_AggregateIsCanonical ==
    (Done("aggregate_routes") /\ Len(arg) >= 2) =>
        /\ IsOk(result)
        /\ And32(ip_to_u32(result.val.ip), TopBits(result.val.prefix)) =
               ip_to_u32(result.val.ip)
        /\ DifferInTopBit(arg) => result.val = Route(<<0, 0, 0, 0>>, 0)

\* Every aggregate with a prefix of at least 1 is canonical.
AggregateCanonicalFromOne ==
    (Done("aggregate_routes") /\ Len(arg) >= 2 /\ IsOk(result)
        /\ result.val.prefix >= 1) =>
        And32(ip_to_u32(result.val.ip), TopBits(result.val.prefix)) =
            ip_to_u32(result.val.ip)

----------------------------------------------------------------------------
(* CLI mask command *)

\* What the mask command has to report for a network of prefix p, a host
\* count h and a network count n: the outcome of the solver called with
\* basePrefix = p, requiredSubnets = n, requiredHosts = h.
MaskCommandReport(p, h, n) ==
    LET outcome == Network_determine_subnet_mask(p, n, h)
    IN  IF outcome = Panicked THEN Panicked ELSE Ok(outcome)

\* C17: the CLI mask command, given a network with prefix p, a host count h
\* (argument hosts) and a network count n (argument networks_number),
\* reports exactly the outcome of the solver called with basePrefix = p,
\* requiredSubnets = n and requiredHosts = h.
C17_MaskCommandPassesCountsInOrder ==
    (Done("handle_mask") /\ IsOk(Network_from_str(arg.network))) =>
        result = MaskCommandReport(Network_from_str(arg.network).val.mask,
                                   arg.hosts, arg.networks_number)

====
